---------------------------- MODULE Spec2Model ----------------------------
(***************************************************************************)
(* Model of the PDF question-answering backend: the word chunker           *)
(* (text_chunking.py), the embedding gateway (embeddings.py, two           *)
(* variants), the Chroma-backed vector store (vector_store.py) and the     *)
(* /ingest and /ask handlers (backend/main.py).                            *)
(*                                                                         *)
(* A Python str is a sequence of one-character strings; a list is a        *)
(* sequence; an exception is a record field "raised".                      *)
(***************************************************************************)
EXTENDS Integers, Sequences, FiniteSets, TLC

VARIABLES
    \* ---- one call of chunk(text, CHUNK_SIZE, CHUNK_OVERLAP)
    c_pc, c_text, c_size, c_overlap, c_ret,
    \* ---- one call of embed_texts(texts), with the answers of the model server
    e_pc, e_texts, e_resps, e_ret,
    \* ---- the Chroma collection "pdf_chunks", the records written by each
    \* add_document call, and the most recent call of the store's API
    collection, added, s_call,
    \* ---- /ingest requests, one at a time: position in the handler, the
    \* upload, the handler's locals, the external calls made so far for the
    \* request, its response, and the number of requests begun
    i_pc, i_upload, i_full_text, i_session_id, i_chunks, i_embeddings,
    i_calls, i_env, i_resp, i_count,
    \* ---- /ask requests, one at a time: position in the handler, the
    \* request, the handler's locals, the external calls made so far for the
    \* request, what the environment did in them, the response, and the
    \* outcome of the request before
    a_pc, a_req, a_query_embedding, a_sources, a_prompt, a_calls, a_env,
    a_resp, a_prev

chunkVars == <<c_pc, c_text, c_size, c_overlap, c_ret>>
embedVars == <<e_pc, e_texts, e_resps, e_ret>>

storeVars == <<collection, added, s_call>>

ingestVars == <<i_pc, i_upload, i_full_text, i_session_id, i_chunks, i_embeddings,
                i_calls, i_env, i_resp, i_count>>

askVars == <<a_pc, a_req, a_query_embedding, a_sources, a_prompt, a_calls, a_env,
             a_resp, a_prev>>

vars == <<chunkVars, embedVars, storeVars, ingestVars, askVars>>

notChunk == <<embedVars, storeVars, ingestVars, askVars>>
notEmbed == <<chunkVars, storeVars, ingestVars, askVars>>
notStore == <<chunkVars, embedVars, ingestVars, askVars>>
notIngest == <<chunkVars, embedVars, s_call, askVars>>
notAsk == <<chunkVars, embedVars, storeVars, ingestVars>>

(***************************************************************************)
(* Bounds of the explored inputs.                                          *)
(***************************************************************************)
MaxRawLen == 4      \* every character sequence up to this length is a text
MaxWords  == 7      \* longest generated multi-word text, in words
MaxParam  == 4      \* CHUNK_SIZE and CHUNK_OVERLAP range over -1..MaxParam
MaxBatch  == 3      \* longest list handed to embed_texts
MaxRecords == 2     \* records the collection holds at most
MaxAdd    == 2      \* longest chunks / embeddings list of a direct add_document call
MaxIngests == 2     \* /ingest requests of one run

(***************************************************************************)
(* Python str helpers.                                                     *)
(***************************************************************************)
White == {" ", "\n", "\t"}

NoText == <<>>

\* "Alpha beta. Gamma delta. Epsilon zeta."
AlphaText ==
    <<"A","l","p","h","a"," ","b","e","t","a","."," ",
      "G","a","m","m","a"," ","d","e","l","t","a","."," ",
      "E","p","s","i","l","o","n"," ","z","e","t","a",".">>

\* str.split() with no argument: the maximal runs of non-whitespace
\* characters, in order; leading, trailing and repeated whitespace is dropped.
RECURSIVE split_scan(_, _, _, _)
split_scan(s, i, cur, acc) ==
    IF i > Len(s)
    THEN IF cur = <<>> THEN acc ELSE Append(acc, cur)
    ELSE IF s[i] \in White
         THEN split_scan(s, i + 1, <<>>, IF cur = <<>> THEN acc ELSE Append(acc, cur))
         ELSE split_scan(s, i + 1, Append(cur, s[i]), acc)

split(s) == split_scan(s, 1, <<>>, <<>>)

\* " ".join(words)
RECURSIVE join(_)
join(words) ==
    IF words = <<>> THEN NoText
    ELSE IF Len(words) = 1 THEN words[1]
    ELSE words[1] \o <<" ">> \o join(Tail(words))

\* str.strip(): leading and trailing whitespace removed
RECURSIVE lstrip(_)
lstrip(s) == IF s # <<>> /\ s[1] \in White THEN lstrip(Tail(s)) ELSE s

RECURSIVE rstrip(_)
rstrip(s) ==
    IF s # <<>> /\ s[Len(s)] \in White THEN rstrip(SubSeq(s, 1, Len(s) - 1)) ELSE s

strip(s) == rstrip(lstrip(s))

\* list slice xs[start:end] for 0 <= start, 0 <= end (0-based, end exclusive)
slice(xs, start, end) ==
    SubSeq(xs, start + 1, IF end < Len(xs) THEN end ELSE Len(xs))

\* " ".join(text.split()); the words are bound to the value of text.split()
\* and then joined
normalise(text) == CHOOSE n \in {join(words) : words \in {split(text)}} : TRUE

(***************************************************************************)
(* text_chunking.chunk                                                     *)
(***************************************************************************)
Returned(v) == [raised |-> "none", value |-> v]
Raised(e)   == [raised |-> e, value |-> <<>>]
\* an exception with its message, str(e)
RaisedMsg(e, msg) == [raised |-> e, value |-> <<>>, msg |-> msg]

(***************************************************************************)
(* A specification runs one part of the program; the variables of the      *)
(* other parts rest at these values.                                       *)
(***************************************************************************)
ChunkIdle ==
    /\ c_pc = "idle" /\ c_text = NoText /\ c_size = 1 /\ c_overlap = 0
    /\ c_ret = Returned(<<>>)

EmbedIdle ==
    /\ e_pc = "idle" /\ e_texts = <<>> /\ e_resps = <<>> /\ e_ret = Returned(<<>>)

NoCall == [op |-> "none"]

StoreEmpty ==
    /\ collection = <<>> /\ added = {} /\ s_call = NoCall

NoUpload == [content_type |-> "none"]
NoCalls == [summarise |-> 0, embed |-> 0, add |-> 0]
NoIngestEnv == [summarise |-> "none", resps |-> <<>>]
NoResponse == [status |-> 0]

NoRequest == [session_id |-> NoText, question |-> NoText]
NoPrompt == [context_parts |-> <<>>, context |-> NoText, question |-> NoText]
NoAskCalls == [embed |-> 0, query |-> 0, generate |-> 0]
NoEnv == [embed |-> [kind |-> "none"], index |-> "none", generate |-> "none"]
NoOutcome == [status |-> 0]

AskIdle ==
    /\ a_pc = "idle" /\ a_req = NoRequest /\ a_query_embedding = <<>>
    /\ a_sources = <<>> /\ a_prompt = NoPrompt /\ a_calls = NoAskCalls
    /\ a_env = NoEnv /\ a_resp = NoResponse /\ a_prev = NoOutcome

IngestIdle ==
    /\ i_pc = "idle" /\ i_upload = NoUpload /\ i_full_text = NoText
    /\ i_session_id = NoText /\ i_chunks = <<>> /\ i_embeddings = <<>>
    /\ i_calls = NoCalls /\ i_env = NoIngestEnv /\ i_resp = NoResponse /\ i_count = 0

\* mutant: the window advances by CHUNK_SIZE, the overlap is lost
RECURSIVE sliding_window_no_overlap(_, _, _, _, _)
sliding_window_no_overlap(words, start, size, step, chunks) ==
    IF ~(start < Len(words)) THEN chunks
    ELSE LET chunk_words == slice(words, start, start + size)
         IN  sliding_window_no_overlap(words, start + size, size, step,
                 Append(chunks, strip(join(chunk_words))))

\* the while loop of chunk: windows of CHUNK_SIZE words every `step` words
RECURSIVE sliding_window(_, _, _, _, _)
sliding_window(words, start, size, step, chunks) ==
    IF ~(start < Len(words)) THEN chunks
    ELSE LET end == start + size
             chunk_words == slice(words, start, end)
         IN  IF chunk_words = <<>> THEN chunks
             ELSE LET chunk_text == strip(join(chunk_words))
                  IN  sliding_window(words, start + step, size, step,
                          IF chunk_text # NoText
                          THEN Append(chunks, chunk_text) ELSE chunks)

\* mutant: the parameters are validated only after the empty-text return
chunk_validate_late(text, size, overlap) ==
    LET normalised == normalise(text) IN
    IF normalised = NoText THEN Returned(<<>>)
    ELSE IF size <= 0 THEN Raised("ValueError")
    ELSE IF overlap < 0 THEN Raised("ValueError")
    ELSE IF overlap >= size THEN Raised("ValueError")
    ELSE LET words == split(normalised) IN
         IF Len(words) <= size THEN Returned(<<normalised>>)
         ELSE Returned(sliding_window(words, 0, size, size - overlap, <<>>))

\* mutant: the "if not normalised: return []" guard is missing
chunk_no_empty_guard(text, size, overlap) ==
    IF size <= 0 THEN Raised("ValueError")
    ELSE IF overlap < 0 THEN Raised("ValueError")
    ELSE IF overlap >= size THEN Raised("ValueError")
    ELSE LET normalised == normalise(text)
             words == split(normalised)
         IN  IF Len(words) <= size THEN Returned(<<normalised>>)
             ELSE Returned(sliding_window(words, 0, size, size - overlap, <<>>))

chunk(text, size, overlap) ==
    IF size <= 0 THEN Raised("ValueError")
    ELSE IF overlap < 0 THEN Raised("ValueError")
    ELSE IF overlap >= size THEN Raised("ValueError")
    ELSE LET normalised == normalise(text) IN
         IF normalised = NoText THEN Returned(<<>>)
         ELSE LET words == split(normalised)
                  no_words == Len(words)
              IN  IF no_words <= size THEN Returned(<<normalised>>)
                  ELSE Returned(sliding_window(words, 0, size, size - overlap, <<>>))

(***************************************************************************)
(* embeddings.embed_text / embed_texts, in the two variants of the         *)
(* repository: src/embeddings.py (fail fast) and src/backend/embeddings.py *)
(* (skip and warn; the one main.py imports).                               *)
(*                                                                         *)
(* The Ollama server is the environment: a call raises, answers without    *)
(* the vector field, or answers with a vector.                             *)
(***************************************************************************)
\* the vectors the embedding model answers with: two points of a line
Coords == {0, 1}
Vectors == {<<x>> : x \in Coords}

OllamaRaises == [kind |-> "exception"]
OllamaNoField == [kind |-> "missing"]
OllamaVector(v) == [kind |-> "ok", vec |-> v]

OllamaAnswers == {OllamaRaises, OllamaNoField} \cup {OllamaVector(v) : v \in Vectors}

\* backend.config.MAX_CHUNK_CHARS, scaled to the texts of the model
MAX_CHUNK_CHARS == 24

\* src/embeddings.py: embed_text, `resp` the server's behaviour for this call
embed_text_root(text, resp) ==
    LET normalised == normalise(text) IN
    IF normalised = NoText THEN Raised("EmbeddingError")
    ELSE IF resp.kind = "exception" THEN Raised("EmbeddingError")
    ELSE IF resp.kind = "missing" THEN Raised("EmbeddingError")
    ELSE Returned(resp.vec)

\* src/backend/embeddings.py: embed_text
embed_text(text, resp) ==
    LET normalised == normalise(text) IN
    IF normalised = NoText
    THEN RaisedMsg("EmbeddingError", "Cannot embed empty text")
    ELSE IF Len(normalised) > MAX_CHUNK_CHARS
    THEN RaisedMsg("EmbeddingError", "Chunk too large to embed")
    ELSE IF resp.kind = "exception"
    THEN RaisedMsg("EmbeddingError", "Failed to get embedding from Ollama")
    ELSE IF resp.kind = "missing"
    THEN RaisedMsg("EmbeddingError", "Ollama did not return embeddings")
    ELSE Returned(resp.vec)

\* src/embeddings.py: embed_texts, the loop from index i (1-based) on;
\* the first failing item aborts the call
RECURSIVE embed_texts_root_loop(_, _, _, _)
embed_texts_root_loop(texts, resps, i, embeddings) ==
    IF i > Len(texts) THEN Returned(embeddings)
    ELSE LET emb == embed_text_root(texts[i], resps[i]) IN
         IF emb.raised = "EmbeddingError" THEN Raised("EmbeddingError")
         ELSE embed_texts_root_loop(texts, resps, i + 1, Append(embeddings, emb.value))

embed_texts_root(texts, resps) == embed_texts_root_loop(texts, resps, 1, <<>>)

\* src/backend/embeddings.py: embed_texts, the loop from index i on;
\* a failing item is skipped with a warning
RECURSIVE embed_texts_loop(_, _, _, _)
embed_texts_loop(texts, resps, i, embeddings) ==
    IF i > Len(texts) THEN embeddings
    ELSE LET emb == embed_text(texts[i], resps[i]) IN
         IF emb.raised = "EmbeddingError"
         THEN embed_texts_loop(texts, resps, i + 1, embeddings)
         ELSE embed_texts_loop(texts, resps, i + 1, Append(embeddings, emb.value))

embed_texts(texts, resps) ==
    LET embeddings == embed_texts_loop(texts, resps, 1, <<>>) IN
    IF embeddings = <<>> THEN Raised("EmbeddingError")
    ELSE Returned(embeddings)

(***************************************************************************)
(* SpecEmbed: one call of embed_texts, in either variant, on a list of     *)
(* texts and server answers drawn from the bounded sets.                   *)
(***************************************************************************)
\* AlphaText is longer than MAX_CHUNK_CHARS
EmbedTexts == {NoText, <<" ", "\n">>, <<"a">>, <<"a", " ", " ", "b">>, AlphaText}

InitEmbed ==
    /\ ChunkIdle /\ StoreEmpty /\ IngestIdle /\ AskIdle
    /\ e_pc = "call"
    /\ \E n \in 0..MaxBatch :
          /\ e_texts \in [1..n -> EmbedTexts]
          /\ e_resps \in [1..n -> OllamaAnswers]
    /\ e_ret = Returned(<<>>)

CallEmbedTextsRoot ==
    /\ e_pc = "call"
    /\ e_ret' = embed_texts_root(e_texts, e_resps)
    /\ e_pc' = "done_root"
    /\ UNCHANGED <<e_texts, e_resps>>
    /\ UNCHANGED notEmbed

CallEmbedTexts ==
    /\ e_pc = "call"
    /\ e_ret' = embed_texts(e_texts, e_resps)
    /\ e_pc' = "done_backend"
    /\ UNCHANGED <<e_texts, e_resps>>
    /\ UNCHANGED notEmbed

NextEmbed == CallEmbedTextsRoot \/ CallEmbedTexts

SpecEmbed == InitEmbed /\ [][NextEmbed]_vars

(***************************************************************************)
(* vector_store: add_document and query_document over the one Chroma       *)
(* collection.  The collection is the sequence of its records in insertion *)
(* order.  Chroma is the environment: collection.add appends the records   *)
(* or raises, collection.query answers the nearest records that match the  *)
(* `where` filter or raises.                                               *)
(***************************************************************************)
DigitChars == <<"0", "1", "2", "3", "4", "5", "6", "7", "8", "9">>

\* str(i) for i >= 0
RECURSIVE str_int(_)
str_int(i) ==
    IF i < 10 THEN <<DigitChars[i + 1]>>
    ELSE str_int(i \div 10) \o <<DigitChars[(i % 10) + 1]>>

\* f"{session_id}_{i}"
record_id(session_id, i) == session_id \o <<"_">> \o str_int(i)

\* the records one collection.add call writes, in list order
new_records(ids, documents, embeddings, metadatas) ==
    [k \in 1..Len(ids) |->
        [id |-> ids[k], document |-> documents[k],
         embedding |-> embeddings[k], metadata |-> metadatas[k]]]

\* the id is the key of a record: the collection holds no record of this id
fresh_id(coll, id) == \A k \in 1..Len(coll) : coll[k].id # id

\* mutant: collection.add stores a record whatever its id
chroma_add_keep_duplicates(coll, ids, documents, embeddings, metadatas, how) ==
    IF how = "raise" THEN [raised |-> "Exception", coll |-> coll]
    ELSE [raised |-> "none",
          coll |-> coll \o new_records(ids, documents, embeddings, metadatas)]

\* collection.add(ids, documents, embeddings, metadatas): `how` is what
\* Chroma does with the call.  A collection keeps one record per id: add
\* either raises (how = "raise", as for any other failure) or stores the
\* records of new ids and leaves a record whose id exists as it is.
chroma_add(coll, ids, documents, embeddings, metadatas, how) ==
    IF how = "raise" THEN [raised |-> "Exception", coll |-> coll]
    ELSE [raised |-> "none",
          coll |-> coll \o SelectSeq(new_records(ids, documents, embeddings, metadatas),
                                     LAMBDA r : fresh_id(coll, r.id))]

\* mutant: lists of different lengths are paired up to the shorter one
add_document_zip(coll, session_id, chunks, embeddings, how) ==
    IF session_id = NoText
    THEN [raised |-> "VectorStoreError", coll |-> coll, opened |-> FALSE]
    ELSE IF Len(chunks) = 0 \/ Len(embeddings) = 0
    THEN [raised |-> "VectorStoreError", coll |-> coll, opened |-> FALSE]
    ELSE IF how = "unavailable"
    THEN [raised |-> "Exception", coll |-> coll, opened |-> TRUE]
    ELSE LET n == IF Len(chunks) < Len(embeddings) THEN Len(chunks) ELSE Len(embeddings)
             ids == [k \in 1..n |-> record_id(session_id, k - 1)]
             metadatas == [k \in 1..n |->
                              [session_id |-> session_id, chunk_index |-> k - 1]]
             r == chroma_add(coll, ids, SubSeq(chunks, 1, n), SubSeq(embeddings, 1, n),
                             metadatas, how)
         IN  IF r.raised # "none"
             THEN [raised |-> "VectorStoreError", coll |-> coll, opened |-> TRUE]
             ELSE [raised |-> "none", coll |-> r.coll, opened |-> TRUE]

\* mutant: the session_id check is left out
add_document_no_session_check(coll, session_id, chunks, embeddings, how) ==
    IF Len(chunks) = 0
    THEN [raised |-> "VectorStoreError", coll |-> coll, opened |-> FALSE]
    ELSE IF Len(chunks) # Len(embeddings)
    THEN [raised |-> "VectorStoreError", coll |-> coll, opened |-> FALSE]
    ELSE IF how = "unavailable"
    THEN [raised |-> "Exception", coll |-> coll, opened |-> TRUE]
    ELSE LET ids == [k \in 1..Len(chunks) |-> record_id(session_id, k - 1)]
             metadatas == [k \in 1..Len(chunks) |->
                              [session_id |-> session_id, chunk_index |-> k - 1]]
             r == chroma_add(coll, ids, chunks, embeddings, metadatas, how)
         IN  IF r.raised # "none"
             THEN [raised |-> "VectorStoreError", coll |-> coll, opened |-> TRUE]
             ELSE [raised |-> "none", coll |-> r.coll, opened |-> TRUE]

\* add_document(session_id, chunks, embeddings): the outcome, the collection
\* after the call, and whether _get_collection() was reached.  `how` is what
\* Chroma does: "unavailable" is _get_collection() raising (outside the
\* try), "raise" is collection.add raising, "ok" is the records appended.
add_document(coll, session_id, chunks, embeddings, how) ==
    IF session_id = NoText
    THEN [raised |-> "VectorStoreError", coll |-> coll, opened |-> FALSE]
    ELSE IF Len(chunks) = 0
    THEN [raised |-> "VectorStoreError", coll |-> coll, opened |-> FALSE]
    ELSE IF Len(chunks) # Len(embeddings)
    THEN [raised |-> "VectorStoreError", coll |-> coll, opened |-> FALSE]
    ELSE IF how = "unavailable"
    THEN [raised |-> "Exception", coll |-> coll, opened |-> TRUE]
    ELSE LET ids == [k \in 1..Len(chunks) |-> record_id(session_id, k - 1)]
             metadatas == [k \in 1..Len(chunks) |->
                              [session_id |-> session_id, chunk_index |-> k - 1]]
             r == chroma_add(coll, ids, chunks, embeddings, metadatas, how)
         IN  IF r.raised # "none"
             THEN [raised |-> "VectorStoreError", coll |-> coll, opened |-> TRUE]
             ELSE [raised |-> "none", coll |-> r.coll, opened |-> TRUE]

\* squared Euclidean distance
RECURSIVE sum_sq(_, _, _)
sum_sq(u, v, k) ==
    IF k > Len(u) THEN 0
    ELSE (u[k] - v[k]) * (u[k] - v[k]) + sum_sq(u, v, k + 1)

distance(u, v) == sum_sq(u, v, 1)

\* positions of the records the filter where={"session_id": session_id} keeps
matching(coll, session_id) ==
    {k \in 1..Len(coll) : coll[k].metadata.session_id = session_id}

\* the rankings collection.query may answer: the min(n, #candidates) nearest
\* candidates, nearest first, ties in any order
nearest(coll, candidates, q, n) ==
    LET m == IF n < Cardinality(candidates) THEN n ELSE Cardinality(candidates)
    IN  {r \in [1..m -> candidates] :
            /\ \A a, b \in 1..m : a < b =>
                  /\ r[a] # r[b]
                  /\ distance(coll[r[a]].embedding, q) <= distance(coll[r[b]].embedding, q)
            /\ \A k \in candidates : \A a \in 1..m :
                  (\A b \in 1..m : r[b] # k) =>
                      distance(coll[r[a]].embedding, q) <= distance(coll[k].embedding, q)}

\* the dictionary collection.query returns for one query embedding
query_result(coll, r, q) ==
    [ids |-> <<[a \in 1..Len(r) |-> coll[r[a]].id]>>,
     documents |-> <<[a \in 1..Len(r) |-> coll[r[a]].document]>>,
     metadatas |-> <<[a \in 1..Len(r) |-> coll[r[a]].metadata]>>,
     distances |-> <<[a \in 1..Len(r) |-> distance(coll[r[a]].embedding, q)]>>]

\* collection.query(query_embeddings=[q], n_results=n, where={"session_id": sid})
chroma_query(coll, q, n, session_id, how) ==
    IF how = "raise" THEN {Raised("Exception")}
    ELSE {Returned(query_result(coll, r, q)) :
            r \in nearest(coll, matching(coll, session_id), q, n)}

\* mutant: the query is sent without the where filter
query_document_no_filter(coll, session_id, query_embedding, n_results, how) ==
    IF session_id = NoText
    THEN {RaisedMsg("VectorStoreError", "session_id must be a non-empty string")}
    ELSE IF Len(query_embedding) = 0
    THEN {RaisedMsg("VectorStoreError",
                    "query_embedding must be a non-empty list of floats")}
    ELSE IF n_results <= 0
    THEN {RaisedMsg("VectorStoreError", "n_results must be > 0")}
    ELSE IF how = "unavailable" THEN {RaisedMsg("Exception", "chroma")}
    ELSE IF how = "raise"
    THEN {RaisedMsg("VectorStoreError", "Failed to query vector store")}
    ELSE {Returned(query_result(coll, r, query_embedding)) :
            r \in nearest(coll, 1..Len(coll), query_embedding, n_results)}

\* query_document(session_id, query_embedding, n_results): the possible
\* outcomes; `how` as for add_document, "raise" being collection.query raising
query_document(coll, session_id, query_embedding, n_results, how) ==
    IF session_id = NoText
    THEN {RaisedMsg("VectorStoreError", "session_id must be a non-empty string")}
    ELSE IF Len(query_embedding) = 0
    THEN {RaisedMsg("VectorStoreError",
                    "query_embedding must be a non-empty list of floats")}
    ELSE IF n_results <= 0
    THEN {RaisedMsg("VectorStoreError", "n_results must be > 0")}
    ELSE IF how = "unavailable" THEN {RaisedMsg("Exception", "chroma")}
    ELSE {IF r.raised # "none"
          THEN RaisedMsg("VectorStoreError", "Failed to query vector store")
          ELSE r :
            r \in chroma_query(coll, query_embedding, n_results, session_id, how)}

(***************************************************************************)
(* SpecStore: any interleaving of add_document and query_document calls    *)
(* of any sessions on the shared collection.                               *)
(***************************************************************************)
SessionIds == {NoText, <<"A">>, <<"B">>}
StoreDocs == {<<"x">>, <<"y">>}
ChromaBehaviours == {"ok", "raise", "unavailable"}

\* the lists handed to add_document: every list of at most one element, and
\* for each greater length up to MaxAdd one list (a add call per record
\* builds every other combination)
DocAt(k) == IF k % 2 = 1 THEN <<"x">> ELSE <<"y">>
VecAt(k) == <<(k - 1) % Cardinality(Coords)>>

ChunkLists ==
    {<<>>} \cup {<<d>> : d \in StoreDocs}
        \cup {[k \in 1..m |-> DocAt(k)] : m \in 2..MaxAdd}

EmbeddingLists ==
    {<<>>} \cup {<<v>> : v \in Vectors}
        \cup {[k \in 1..m |-> VecAt(k)] : m \in 2..MaxAdd}

InitStore ==
    /\ ChunkIdle /\ EmbedIdle /\ IngestIdle /\ AskIdle
    /\ StoreEmpty

\* Chroma is called only by a call that passes the validation
add_reaches_chroma(session_id, chunks, embeddings) ==
    session_id # NoText /\ Len(chunks) # 0 /\ Len(chunks) = Len(embeddings)

query_reaches_chroma(session_id, q, n) ==
    session_id # NoText /\ Len(q) # 0 /\ n > 0

\* what an add_document call of `session_id` wrote, for the record of calls
written(session_id, before, after) ==
    {[by |-> session_id, rec |-> after[k]] : k \in (Len(before) + 1)..Len(after)}

AddDocument ==
    \E session_id \in SessionIds, chunks \in ChunkLists,
       embeddings \in EmbeddingLists, how \in ChromaBehaviours :
        LET r == add_document(collection, session_id, chunks, embeddings, how) IN
        /\ Len(r.coll) <= MaxRecords
        /\ add_reaches_chroma(session_id, chunks, embeddings) \/ how = "ok"
        /\ collection' = r.coll
        /\ added' = added \cup written(session_id, collection, r.coll)
        /\ s_call' = [op |-> "add_document", session_id |-> session_id,
                      chunks |-> chunks, embeddings |-> embeddings,
                      opened |-> r.opened,
                      ret |-> [raised |-> r.raised]]
        /\ UNCHANGED notStore

QueryNs == {0, 1, 5}

QueryDocument ==
    \E session_id \in SessionIds, q \in Vectors \cup {<<>>}, n \in QueryNs,
       how \in ChromaBehaviours :
        \E ret \in query_document(collection, session_id, q, n, how) :
            /\ query_reaches_chroma(session_id, q, n) \/ how = "ok"
            /\ s_call' = [op |-> "query_document", session_id |-> session_id,
                          query_embedding |-> q, n_results |-> n, ret |-> ret]
            /\ UNCHANGED <<collection, added>>
            /\ UNCHANGED notStore

NextStore == AddDocument \/ QueryDocument

SpecStore == InitStore /\ [][NextStore]_vars

(***************************************************************************)
(* backend/text_extraction.extract_text_from_pdf_bytes.  pypdf is the      *)
(* environment: a PDF is what PdfReader makes of it, `parse`, and its      *)
(* pages, each with the text extract_text() gives or None.                 *)
(***************************************************************************)
Page(text) == [has_text |-> TRUE, text |-> text]
PageNone == [has_text |-> FALSE, text |-> NoText]

\* "\n\n".join(pages_text)
RECURSIVE join_pages(_)
join_pages(pages_text) ==
    IF pages_text = <<>> THEN NoText
    ELSE IF Len(pages_text) = 1 THEN pages_text[1]
    ELSE pages_text[1] \o <<"\n", "\n">> \o join_pages(Tail(pages_text))

extract_text_from_pdf_bytes(pdf) ==
    IF pdf.parse = "crash" THEN Raised("Exception")
    ELSE IF pdf.parse = "unreadable" THEN Raised("PDFExtractionError")
    ELSE IF pdf.parse = "encrypted" THEN Raised("PDFExtractionError")
    ELSE IF pdf.parse = "page_error" THEN Raised("PDFExtractionError")
    ELSE LET pages_text == [k \in 1..Len(pdf.pages) |->
                               IF pdf.pages[k].has_text THEN pdf.pages[k].text
                               ELSE NoText]
             full_text == join_pages(pages_text)
             no_chars == Len(full_text)
         IN  IF no_chars = 0 THEN Raised("PDFExtractionError")
             ELSE Returned([full_text |-> full_text,
                            no_pages |-> Len(pdf.pages),
                            no_chars |-> no_chars])

(***************************************************************************)
(* backend/summariser.summarise_doc: one chat call per chunk and one for   *)
(* the final summary; `fail_at` is the first call that raises (0: none).   *)
(***************************************************************************)
summarise_doc(chunks, fail_at) ==
    IF fail_at = 0
    THEN [raised |-> "none", value |-> "summary", calls |-> Len(chunks) + 1]
    ELSE [raised |-> "Exception", value |-> "", calls |-> fail_at]

(***************************************************************************)
(* backend/main.ingest_pdf, stage by stage.                                *)
(***************************************************************************)
Http(status, detail) == [status |-> status, detail |-> detail]

\* the handler up to the extracted text: an HTTP error, or the text
ingest_receive(upload) ==
    IF upload.content_type \notin {"application/pdf", "application/x-pdf"}
    THEN [pc |-> "done", resp |-> Http(400, "Uploaded file must be a PDF")]
    ELSE IF ~upload.read_ok
    THEN [pc |-> "done", resp |-> Http(400, "Failed to read uploaded file")]
    ELSE IF upload.too_large
    THEN [pc |-> "done", resp |-> Http(400, "PDF is too large (20MB limit)")]
    ELSE LET result == extract_text_from_pdf_bytes(upload.pdf) IN
         IF result.raised = "PDFExtractionError"
         THEN [pc |-> "done", resp |-> Http(400, "PDFExtractionError")]
         ELSE IF result.raised # "none"
         THEN [pc |-> "done",
               resp |-> Http(500, "Unexpected error during PDF ingestion")]
         ELSE [pc |-> "chunk", result |-> result.value]

\* mutant: the handler goes on with an empty chunk list
ingest_chunk_unchecked(full_text, size, overlap) ==
    LET r == chunk(full_text, size, overlap) IN
    IF r.raised # "none"
    THEN [pc |-> "done", resp |-> Http(500, "Failed during chunk/embed/store stage")]
    ELSE [pc |-> "summarise", chunks |-> r.value]

\* chunks = chunk(full_text, CHUNK_SIZE, CHUNK_OVERLAP); if not chunks: 400
ingest_chunk(full_text, size, overlap) ==
    LET r == chunk(full_text, size, overlap) IN
    IF r.raised # "none"
    THEN [pc |-> "done", resp |-> Http(500, "Failed during chunk/embed/store stage")]
    ELSE IF r.value = <<>>
    THEN [pc |-> "done",
          resp |-> Http(400, "No non-empty chunks could be created from the PDF text")]
    ELSE [pc |-> "summarise", chunks |-> r.value]

\* backend.config.CHUNK_SIZE, CHUNK_OVERLAP
CHUNK_SIZE == 3
CHUNK_OVERLAP == 1

\* str(uuid.uuid4()) of the n-th request: a fresh identifier
uuid4(n) == <<"u">> \o str_int(n)

(***************************************************************************)
(* SpecIngest: /ingest requests, one after the other, on uploads drawn     *)
(* from IngestUploads, with every behaviour of the chat model, the         *)
(* embedding model and Chroma.                                             *)
(***************************************************************************)
Pdf(parse, pages) ==
    [content_type |-> "application/pdf", read_ok |-> TRUE, too_large |-> FALSE,
     pdf |-> [parse |-> parse, pages |-> pages]]

IngestUploads ==
    { [content_type |-> "text/plain", read_ok |-> TRUE, too_large |-> FALSE,
       pdf |-> [parse |-> "ok", pages |-> <<>>]],
      [content_type |-> "application/pdf", read_ok |-> FALSE, too_large |-> FALSE,
       pdf |-> [parse |-> "ok", pages |-> <<>>]],
      [content_type |-> "application/x-pdf", read_ok |-> TRUE, too_large |-> TRUE,
       pdf |-> [parse |-> "ok", pages |-> <<>>]],
      Pdf("crash", <<>>), Pdf("unreadable", <<>>), Pdf("encrypted", <<>>),
      Pdf("page_error", <<>>),
      Pdf("ok", <<>>),
      Pdf("ok", <<PageNone>>),
      Pdf("ok", <<PageNone, Page(NoText)>>),
      Pdf("ok", <<Page(<<" ", "\t">>)>>),
      Pdf("ok", <<Page(<<"a", " ", "b">>)>>),
      Pdf("ok", <<Page(AlphaText)>>),
      Pdf("ok", <<Page(SubSeq(AlphaText, 1, 11)), Page(SubSeq(AlphaText, 13, 38))>>) }

InitIngest ==
    /\ ChunkIdle /\ EmbedIdle /\ StoreEmpty /\ AskIdle
    /\ IngestIdle

IngestReceive ==
    /\ i_pc \in {"idle", "done"}
    /\ i_count < MaxIngests
    /\ \E upload \in IngestUploads :
          LET r == ingest_receive(upload) IN
          /\ i_upload' = upload
          /\ i_count' = i_count + 1
          /\ i_calls' = NoCalls
          /\ i_env' = NoIngestEnv
          /\ i_chunks' = <<>>
          /\ i_embeddings' = <<>>
          /\ i_pc' = r.pc
          /\ IF r.pc = "done"
             THEN /\ i_resp' = r.resp
                  /\ i_full_text' = NoText
                  /\ i_session_id' = NoText
             ELSE /\ i_resp' = NoResponse
                  /\ i_full_text' = r.result.full_text
                  /\ i_session_id' = uuid4(i_count + 1)
    /\ UNCHANGED <<collection, added>>
    /\ UNCHANGED notIngest

IngestChunk ==
    /\ i_pc = "chunk"
    /\ LET r == ingest_chunk(i_full_text, CHUNK_SIZE, CHUNK_OVERLAP) IN
          /\ i_pc' = r.pc
          /\ IF r.pc = "done"
             THEN i_resp' = r.resp /\ UNCHANGED i_chunks
             ELSE i_chunks' = r.chunks /\ UNCHANGED i_resp
    /\ UNCHANGED <<i_upload, i_full_text, i_session_id, i_embeddings, i_calls, i_env,
                   i_count>>
    /\ UNCHANGED <<collection, added>>
    /\ UNCHANGED notIngest

IngestSummarise ==
    /\ i_pc = "summarise"
    /\ \E fail_at \in 0..(Len(i_chunks) + 1) :
          LET r == summarise_doc(i_chunks, fail_at) IN
          /\ i_calls' = [i_calls EXCEPT !.summarise = @ + r.calls]
          /\ i_env' = [i_env EXCEPT !.summarise =
                          IF r.raised # "none" THEN "raise" ELSE "ok"]
          /\ IF r.raised # "none"
             THEN /\ i_pc' = "done"
                  /\ i_resp' = Http(500, "Failed during chunk/embed/store stage")
             ELSE /\ i_pc' = "embed"
                  /\ UNCHANGED i_resp
    /\ UNCHANGED <<i_upload, i_full_text, i_session_id, i_chunks, i_embeddings, i_count>>
    /\ UNCHANGED <<collection, added>>
    /\ UNCHANGED notIngest

IngestEmbed ==
    /\ i_pc = "embed"
    /\ \E resps \in [1..Len(i_chunks) -> OllamaAnswers] :
          LET r == embed_texts(i_chunks, resps) IN
          /\ i_calls' = [i_calls EXCEPT !.embed = @ + 1]
          /\ i_env' = [i_env EXCEPT !.resps = resps]
          /\ IF r.raised # "none"
             THEN /\ i_pc' = "done"
                  /\ i_resp' = Http(500, "Failed during chunk/embed/store stage")
                  /\ UNCHANGED i_embeddings
             ELSE /\ i_pc' = "store"
                  /\ i_embeddings' = r.value
                  /\ UNCHANGED i_resp
    /\ UNCHANGED <<i_upload, i_full_text, i_session_id, i_chunks, i_count>>
    /\ UNCHANGED <<collection, added>>
    /\ UNCHANGED notIngest

IngestStore ==
    /\ i_pc = "store"
    /\ \E how \in ChromaBehaviours :
          LET r == add_document(collection, i_session_id, i_chunks, i_embeddings, how) IN
          /\ i_calls' = [i_calls EXCEPT !.add = @ + 1]
          /\ collection' = r.coll
          /\ added' = added \cup written(i_session_id, collection, r.coll)
          /\ i_pc' = "done"
          /\ IF r.raised # "none"
             THEN i_resp' = Http(500, "Failed during chunk/embed/store stage")
             ELSE i_resp' = [status |-> 200, session_id |-> i_session_id,
                             pages |-> Len(i_upload.pdf.pages),
                             chars |-> Len(i_full_text),
                             preview |-> slice(i_full_text, 0, 300),
                             summary |-> "summary"]
    /\ UNCHANGED <<i_upload, i_full_text, i_session_id, i_chunks, i_embeddings, i_env,
                   i_count>>
    /\ UNCHANGED notIngest

NextIngest ==
    IngestReceive \/ IngestChunk \/ IngestSummarise \/ IngestEmbed \/ IngestStore

SpecIngest == InitIngest /\ [][NextIngest]_vars

(***************************************************************************)
(* backend/main.ask_pdf, stage by stage.                                   *)
(***************************************************************************)
\* f"{prefix}: {e}", as the pair of its fixed part and the exception's text
Detail(prefix, e) == <<prefix, e>>

N_RESULTS == 5

\* "\n\n---\n\n".join(context_parts)
RECURSIVE join_context(_)
join_context(parts) ==
    IF parts = <<>> THEN NoText
    ELSE IF Len(parts) = 1 THEN parts[1]
    ELSE parts[1] \o <<"\n", "\n", "-", "-", "-", "\n", "\n">> \o join_context(Tail(parts))

\* mutant: a question that cannot be embedded is searched for all the same
ask_embed_fallback(question, resp) ==
    LET r == embed_text(question, resp) IN
    IF r.raised # "none"
    THEN [pc |-> "query", query_embedding |-> <<>>]
    ELSE [pc |-> "query", query_embedding |-> r.value]

\* query_embedding = embed_text(request.question); any exception: 500
ask_embed(question, resp) ==
    LET r == embed_text(question, resp) IN
    IF r.raised # "none"
    THEN [pc |-> "done", resp |-> Http(500, Detail("Failed to embed question", r.msg))]
    ELSE [pc |-> "query", query_embedding |-> r.value]

\* mutant: an empty answer of the index is not checked for
ask_retrieved_unchecked(ret, question) ==
    IF ret.raised = "VectorStoreError"
    THEN [pc |-> "done", resp |-> Http(400, Detail("", ret.msg))]
    ELSE IF ret.raised # "none"
    THEN [pc |-> "done", resp |-> Http(500, Detail("Vector store query failed", ret.msg))]
    ELSE LET docs == ret.value.documents[1]
             metas == ret.value.metadatas[1]
             n == IF Len(docs) < Len(metas) THEN Len(docs) ELSE Len(metas)
             context_parts == [k \in 1..n |-> docs[k]]
         IN  [pc |-> "generate",
              sources |-> [k \in 1..n |->
                              [chunk_index |-> metas[k].chunk_index, text |-> docs[k]]],
              prompt |-> [context_parts |-> context_parts,
                          context |-> join_context(context_parts),
                          question |-> question]]

\* mutant: a source is numbered by its place in the answer of the index
ask_retrieved_positional(ret, question) ==
    IF ret.raised = "VectorStoreError"
    THEN [pc |-> "done", resp |-> Http(400, Detail("", ret.msg))]
    ELSE IF ret.raised # "none"
    THEN [pc |-> "done", resp |-> Http(500, Detail("Vector store query failed", ret.msg))]
    ELSE LET docs == ret.value.documents[1]
             metas == ret.value.metadatas[1]
         IN  IF docs = <<>>
             THEN [pc |-> "done",
                   resp |-> Http(404, Detail("No relevant chunks found for this session_id", ""))]
             ELSE LET n == IF Len(docs) < Len(metas) THEN Len(docs) ELSE Len(metas)
                      context_parts == [k \in 1..n |-> docs[k]]
                  IN  [pc |-> "generate",
                       sources |-> [k \in 1..n |->
                                       [chunk_index |-> k - 1, text |-> docs[k]]],
                       prompt |-> [context_parts |-> context_parts,
                                   context |-> join_context(context_parts),
                                   question |-> question]]

\* the handler from the return of query_document to the prompt:
\* VectorStoreError: 400; any other exception: 500; no documents: 404
ask_retrieved(ret, question) ==
    IF ret.raised = "VectorStoreError"
    THEN [pc |-> "done", resp |-> Http(400, Detail("", ret.msg))]
    ELSE IF ret.raised # "none"
    THEN [pc |-> "done", resp |-> Http(500, Detail("Vector store query failed", ret.msg))]
    ELSE LET docs == ret.value.documents[1]
             metas == ret.value.metadatas[1]
         IN  IF docs = <<>>
             THEN [pc |-> "done",
                   resp |-> Http(404, Detail("No relevant chunks found for this session_id", ""))]
             ELSE LET n == IF Len(docs) < Len(metas) THEN Len(docs) ELSE Len(metas)
                      context_parts == [k \in 1..n |-> docs[k]]
                  IN  [pc |-> "generate",
                       sources |-> [k \in 1..n |->
                                       [chunk_index |-> metas[k].chunk_index,
                                        text |-> docs[k]]],
                       prompt |-> [context_parts |-> context_parts,
                                   context |-> join_context(context_parts),
                                   question |-> question]]

\* ollama.chat and resp["message"]["content"]; any exception: 500
ask_generate(gen, sources) ==
    IF gen # "ok"
    THEN Http(500, Detail("Failed to generate answer with LLM", gen))
    ELSE [status |-> 200, answer |-> "answer", sources |-> sources]

(***************************************************************************)
(* What made a request fail, from the request and from what the            *)
(* environment did in its calls ("none": nothing failed so far).           *)
(***************************************************************************)
FailureCause(req, env) ==
    IF normalise(req.question) = NoText THEN "empty_question"
    ELSE IF Len(normalise(req.question)) > MAX_CHUNK_CHARS THEN "question_too_large"
    ELSE IF env.embed.kind \in {"exception", "missing"} THEN "embedding_backend"
    ELSE IF env.index = "none" THEN "none"
    ELSE IF req.session_id = NoText THEN "empty_session_id"
    ELSE IF env.index \in {"raise", "unavailable"} THEN "index_backend"
    ELSE IF env.index = "empty" THEN "empty_result"
    ELSE IF env.generate \in {"raise", "malformed"} THEN "generation"
    ELSE "none"

(***************************************************************************)
(* SpecAsk: /ask requests, one after the other, while other requests       *)
(* index documents, with every behaviour of the embedding model, Chroma    *)
(* and the chat model.                                                     *)
(***************************************************************************)
Questions == {NoText, <<"q">>, AlphaText}
ChatBehaviours == {"ok", "raise", "malformed"}

InitAsk ==
    /\ ChunkIdle /\ EmbedIdle /\ StoreEmpty /\ IngestIdle
    /\ AskIdle

\* add_document of an /ingest request that succeeds
StoreDocument ==
    \E session_id \in SessionIds, m \in 1..MaxAdd, embeddings \in EmbeddingLists :
        LET chunks == [k \in 1..m |-> DocAt(k)]
            r == add_document(collection, session_id, chunks, embeddings, "ok")
        IN  /\ Len(collection) + m <= MaxRecords
            /\ r.raised = "none"
            /\ collection' = r.coll
            /\ added' = added \cup written(session_id, collection, r.coll)
            /\ UNCHANGED s_call
            /\ UNCHANGED <<chunkVars, embedVars, ingestVars, askVars>>

AskReceive ==
    /\ a_pc \in {"idle", "done"}
    /\ \E session_id \in SessionIds, question \in Questions :
          a_req' = [session_id |-> session_id, question |-> question]
    /\ a_prev' = IF a_pc = "done"
                 THEN [status |-> a_resp.status, cause |-> FailureCause(a_req, a_env)]
                 ELSE a_prev
    /\ a_pc' = "embed"
    /\ a_query_embedding' = <<>>
    /\ a_sources' = <<>>
    /\ a_prompt' = NoPrompt
    /\ a_calls' = NoAskCalls
    /\ a_env' = NoEnv
    /\ a_resp' = NoResponse
    /\ UNCHANGED notAsk

\* Ollama is called only for a question that passes embed_text's guards
embed_reaches_ollama(text) ==
    normalise(text) # NoText /\ Len(normalise(text)) <= MAX_CHUNK_CHARS

AskEmbed ==
    /\ a_pc = "embed"
    /\ \E resp \in OllamaAnswers :
       \E r \in {ask_embed(a_req.question, resp)},
          reached \in {embed_reaches_ollama(a_req.question)} :
          /\ reached \/ resp = OllamaRaises
          /\ a_calls' = [a_calls EXCEPT !.embed = @ + 1]
          /\ a_env' = [a_env EXCEPT !.embed =
                          IF reached THEN resp ELSE [kind |-> "not_called"]]
          /\ a_pc' = r.pc
          /\ IF r.pc = "done"
             THEN a_resp' = r.resp /\ UNCHANGED a_query_embedding
             ELSE a_query_embedding' = r.query_embedding /\ UNCHANGED a_resp
    /\ UNCHANGED <<a_req, a_sources, a_prompt, a_prev>>
    /\ UNCHANGED notAsk

AskQuery ==
    /\ a_pc = "query"
    /\ \E how \in ChromaBehaviours :
       \E ret \in query_document(collection, a_req.session_id, a_query_embedding,
                                 N_RESULTS, how) :
          LET r == ask_retrieved(ret, a_req.question)
              reached == query_reaches_chroma(a_req.session_id, a_query_embedding,
                                              N_RESULTS)
          IN
          /\ reached \/ how = "ok"
          /\ a_calls' = [a_calls EXCEPT !.query = @ + 1]
          /\ a_env' = [a_env EXCEPT !.index =
                          IF ~reached THEN "not_called"
                          ELSE IF how # "ok" THEN how
                          ELSE IF ret.value.documents[1] = <<>> THEN "empty"
                          ELSE "found"]
          /\ a_pc' = r.pc
          /\ IF r.pc = "done"
             THEN a_resp' = r.resp /\ UNCHANGED <<a_sources, a_prompt>>
             ELSE /\ a_sources' = r.sources
                  /\ a_prompt' = r.prompt
                  /\ UNCHANGED a_resp
    /\ UNCHANGED <<a_req, a_query_embedding, a_prev>>
    /\ UNCHANGED notAsk

AskGenerate ==
    /\ a_pc = "generate"
    /\ \E gen \in ChatBehaviours :
          /\ a_calls' = [a_calls EXCEPT !.generate = @ + 1]
          /\ a_env' = [a_env EXCEPT !.generate = gen]
          /\ a_resp' = ask_generate(gen, a_sources)
    /\ a_pc' = "done"
    /\ UNCHANGED <<a_req, a_query_embedding, a_sources, a_prompt, a_prev>>
    /\ UNCHANGED notAsk

NextAsk == StoreDocument \/ AskReceive \/ AskEmbed \/ AskQuery \/ AskGenerate

SpecAsk == InitAsk /\ [][NextAsk]_vars

\* The handler is straight-line code: once a request is received each of its
\* stages runs as soon as the one before has returned, and every call to
\* Ollama or Chroma returns or raises.  New requests and other requests'
\* writes may or may not come.
SpecAskLive ==
    /\ InitAsk /\ [][NextAsk]_vars
    /\ WF_vars(AskEmbed) /\ WF_vars(AskQuery) /\ WF_vars(AskGenerate)

(***************************************************************************)
(* Input texts of the chunker runs.                                        *)
(***************************************************************************)
RawChars == {"a", "b", " ", "\n"}

RECURSIVE SeqsUpTo(_, _)
SeqsUpTo(S, n) ==
    IF n = 0 THEN {<<>>}
    ELSE LET shorter == SeqsUpTo(S, n - 1)
         IN  shorter \cup {Append(s, x) : s \in {t \in shorter : Len(t) = n - 1}, x \in S}

Letters == <<"a", "b", "c", "d", "e", "f", "g", "h">>

Word(i) == <<Letters[((i - 1) % Len(Letters)) + 1]>>

\* n distinct one-letter words separated by `sep`
RECURSIVE WordsText(_, _)
WordsText(n, sep) ==
    IF n = 0 THEN NoText
    ELSE IF n = 1 THEN Word(1)
    ELSE WordsText(n - 1, sep) \o sep \o Word(n)

SepRuns == {<<" ">>, <<" ", "\n">>}
Pads == {<<>>, <<"\t">>}

WordTexts ==
    {lead \o WordsText(n, sep) \o trail :
        n \in 1..MaxWords, sep \in SepRuns, lead \in Pads, trail \in Pads}

ChunkTexts == SeqsUpTo(RawChars, MaxRawLen) \cup WordTexts \cup {AlphaText}

ParamRange == (0 - 1)..MaxParam

(***************************************************************************)
(* SpecChunk: one call of chunk on an input drawn from the bounded sets.   *)
(***************************************************************************)
InitChunk ==
    /\ EmbedIdle /\ StoreEmpty /\ IngestIdle /\ AskIdle
    /\ c_pc = "call"
    /\ c_text \in ChunkTexts
    /\ c_size \in ParamRange
    /\ c_overlap \in ParamRange
    /\ c_ret = Returned(<<>>)

CallChunk ==
    /\ c_pc = "call"
    /\ c_ret' = chunk(c_text, c_size, c_overlap)
    /\ c_pc' = "done"
    /\ UNCHANGED <<c_text, c_size, c_overlap>>
    /\ UNCHANGED notChunk

NextChunk == CallChunk

SpecChunk == InitChunk /\ [][NextChunk]_vars


(***************************************************************************)
(* Claims about chunk (SpecChunk).                                         *)
(***************************************************************************)
ValidParams == c_size > 0 /\ 0 <= c_overlap /\ c_overlap < c_size

\* a text has a character that is not whitespace
HasInk(text) == \E i \in 1..Len(text) : text[i] \notin White

\* ceil(a / b) for a >= 0, b > 0
CeilDiv(a, b) == (a + b - 1) \div b

InputWords == Len(split(c_text))

\* C3: for a w-word input with w > size and valid size, overlap, chunk returns
\* exactly ceil((w - size) / (size - overlap)) + 1 chunks.
C3_ChunkCount ==
    (c_pc = "done" /\ ValidParams /\ InputWords > c_size)
        => /\ c_ret.raised = "none"
           /\ Len(c_ret.value) = CeilDiv(InputWords - c_size, c_size - c_overlap) + 1

\* C5: for valid size, overlap, chunk returns without raising, the returned
\* list is non-empty exactly when the input has a non-whitespace character,
\* and every returned chunk is a non-empty string.
C5_NonEmptyIffInk ==
    (c_pc = "done" /\ ValidParams)
        => /\ c_ret.raised = "none"
           /\ (c_ret.value # <<>>) <=> HasInk(c_text)
           /\ \A j \in 1..Len(c_ret.value) : c_ret.value[j] # NoText

C5_Witness ==
    /\ c_pc = "done" /\ ValidParams
    /\ c_text # NoText /\ ~HasInk(c_text)
    /\ c_ret = Returned(<<>>)

\* the words of chunk j of the returned list
ChunkWords(j) == split(c_ret.value[j])

FirstWords(ws, n) == SubSeq(ws, 1, n)
LastWords(ws, n) == SubSeq(ws, Len(ws) - n + 1, Len(ws))

\* C6: when chunk returns at least 2 chunks, the last `overlap` words of
\* chunk j are the first `overlap` words of chunk j+1, for every consecutive
\* pair whose second member is not the final chunk.
C6_ConsecutiveOverlap ==
    (c_pc = "done" /\ ValidParams /\ Len(c_ret.value) >= 2)
        => \A j \in 1..(Len(c_ret.value) - 1) :
              (j + 1 < Len(c_ret.value))
                 => /\ Len(ChunkWords(j)) >= c_overlap
                    /\ Len(ChunkWords(j + 1)) >= c_overlap
                    /\ LastWords(ChunkWords(j), c_overlap)
                          = FirstWords(ChunkWords(j + 1), c_overlap)

\* C7: chunk raises a parameter error, and returns nothing, exactly when
\* size <= 0, overlap < 0 or overlap >= size, whatever the text is.
C7_ParamErrorIff ==
    (c_pc = "done")
        => /\ (c_ret.raised = "ValueError") <=> ~ValidParams
           /\ (c_ret.raised = "none") <=> ValidParams
           /\ ~ValidParams => c_ret.value = <<>>

C7_Witness ==
    /\ c_pc = "done"
    /\ ~HasInk(c_text)
    /\ c_size > 0 /\ c_overlap >= c_size
    /\ c_ret.raised = "ValueError"

(***************************************************************************)
(* Claims about embed_texts (SpecEmbed).                                   *)
(***************************************************************************)
\* the vector embed_text obtains for input i in the variant that ran
VectorOf(i) ==
    IF e_pc = "done_root"
    THEN embed_text_root(e_texts[i], e_resps[i])
    ELSE embed_text(e_texts[i], e_resps[i])

\* C2: whenever embed_texts returns a list, in either variant and for every
\* pattern of per-item failures, the list has the length of the input and its
\* element i is the vector obtained for input text i.
C2_OrderAligned ==
    (e_pc \in {"done_root", "done_backend"} /\ e_ret.raised = "none")
        => /\ Len(e_ret.value) = Len(e_texts)
           /\ \A i \in 1..Len(e_texts) : VectorOf(i) = Returned(e_ret.value[i])

(***************************************************************************)
(* Claims about the vector store (SpecStore).                              *)
(***************************************************************************)
QueryReturned == s_call.op = "query_document" /\ s_call.ret.raised = "none"

\* the records of the answer to the most recent query, as (id, document, metadata)
Returned_ids == s_call.ret.value.ids[1]
Returned_docs == s_call.ret.value.documents[1]
Returned_metas == s_call.ret.value.metadatas[1]

\* C1: every record query_document(session_id=A, ...) returns was written by
\* an add_document call made with session_id=A, whatever calls were
\* interleaved and whichever session's vectors are nearest to the query.
C1_SessionIsolation ==
    QueryReturned =>
        \A k \in 1..Len(Returned_ids) :
            \E a \in added :
                /\ a.by = s_call.session_id
                /\ a.rec.id = Returned_ids[k]
                /\ a.rec.document = Returned_docs[k]
                /\ a.rec.metadata = Returned_metas[k]

\* a query of one session answered with records while a record of another
\* session lies strictly nearer to the query vector than every answer
C1_Witness ==
    /\ QueryReturned
    /\ Len(Returned_ids) >= 1
    /\ \E k \in 1..Len(collection) :
          /\ collection[k].metadata.session_id # s_call.session_id
          /\ \A a \in 1..Len(Returned_ids) :
                distance(collection[k].embedding, s_call.query_embedding)
                    < s_call.ret.value.distances[1][a]

\* the records of the collection that carry session_id, in insertion order
RECURSIVE session_records(_, _)
session_records(coll, session_id) ==
    IF coll = <<>> THEN <<>>
    ELSE IF coll[1].metadata.session_id = session_id
         THEN <<coll[1]>> \o session_records(Tail(coll), session_id)
         ELSE session_records(Tail(coll), session_id)

\* the arguments of the add_document call break one of its preconditions
InvalidAdd(call) ==
    /\ call.op = "add_document"
    /\ \/ call.session_id = NoText
       \/ Len(call.chunks) = 0
       \/ Len(call.chunks) # Len(call.embeddings)

\* C11: an add_document call whose session_id is empty, whose chunks are
\* empty, or whose chunks and embeddings differ in length raises
\* VectorStoreError, leaves the collection as it was, and does not reach
\* _get_collection().
C11_InvalidAddRejected ==
    [][InvalidAdd(s_call') =>
          /\ s_call'.ret.raised = "VectorStoreError"
          /\ ~s_call'.opened
          /\ collection' = collection]_vars

\* a one-chunk list with two embeddings is refused by a store that already
\* holds records
C11_Witness ==
    /\ InvalidAdd(s_call)
    /\ s_call.session_id # NoText
    /\ Len(s_call.chunks) = 1 /\ Len(s_call.embeddings) = 2
    /\ s_call.ret.raised = "VectorStoreError"
    /\ collection # <<>>

\* C12: in every state reached by add_document calls, repeated for a
\* session or not, the k-th record of each session in creation order carries
\* chunk_index k-1, no two records share (session_id, chunk_index), and a
\* record once written keeps its place, its ordinal and its chunk.
OrdinalsContiguous ==
    \A sid \in SessionIds :
        LET recs == session_records(collection, sid) IN
        \A k \in 1..Len(recs) : recs[k].metadata.chunk_index = k - 1

OrdinalKeysUnique ==
    \A j, k \in 1..Len(collection) :
        (/\ collection[j].metadata.session_id = collection[k].metadata.session_id
         /\ collection[j].metadata.chunk_index = collection[k].metadata.chunk_index)
            => j = k

RecordsKept ==
    /\ Len(collection') >= Len(collection)
    /\ \A k \in 1..Len(collection) : collection'[k] = collection[k]

AlphaRequest ==
    /\ i_pc \in {"summarise", "embed", "store", "done"}
    /\ normalise(i_full_text) = AlphaText

AlphaBetaGamma == SubSeq(AlphaText, 1, 17)
GammaDeltaEpsilon == SubSeq(AlphaText, 13, 32)
EpsilonZeta == SubSeq(AlphaText, 26, 38)
GammaDeltaEpsilonZeta == SubSeq(AlphaText, 13, 38)

\* C4 as stated: the six-word text gives exactly the 2 chunks
\* "Alpha beta. Gamma" and "Gamma delta. Epsilon zeta.".
C4_TwoChunks ==
    AlphaRequest => i_chunks = <<AlphaBetaGamma, GammaDeltaEpsilonZeta>>

\* C4 amended: with size 3 and overlap 1 the six-word text gives exactly the
\* 3 chunks "Alpha beta. Gamma", "Gamma delta. Epsilon", "Epsilon zeta."
\* (ordinals 0, 1, 2), and a request that succeeds has indexed exactly these
\* three, with these ordinals, under its one session id.
C4_ThreeChunks ==
    (AlphaRequest /\ CHUNK_SIZE = 3 /\ CHUNK_OVERLAP = 1) =>
        /\ i_chunks = <<AlphaBetaGamma, GammaDeltaEpsilon, EpsilonZeta>>
        /\ (i_pc = "done" /\ i_resp.status = 200) =>
              LET recs == session_records(collection, i_session_id) IN
              /\ i_resp.session_id = i_session_id
              /\ i_calls.embed = 1 /\ i_calls.add = 1
              /\ Len(recs) = 3
              /\ \A k \in 1..3 :
                    /\ recs[k].document = i_chunks[k]
                    /\ recs[k].metadata.chunk_index = k - 1
                    /\ recs[k].embedding = i_embeddings[k]

C4_Witness ==
    /\ AlphaRequest
    /\ i_pc = "done" /\ i_resp.status = 200
    /\ Len(session_records(collection, i_session_id)) = 3
    /\ Len(i_upload.pdf.pages) = 2

\* the upload is a readable PDF whose pages hold no character but whitespace
EmptyDocument ==
    /\ i_pc # "idle"
    /\ i_upload.content_type \in {"application/pdf", "application/x-pdf"}
    /\ i_upload.read_ok /\ ~i_upload.too_large
    /\ i_upload.pdf.parse = "ok"
    /\ \A k \in 1..Len(i_upload.pdf.pages) : ~HasInk(i_upload.pdf.pages[k].text)

\* C8: a request whose document text normalizes to empty ends with HTTP 400,
\* and at no point of the request has a summarisation, embedding or
\* add_document call been made, nor a record been written for it.
C8_EmptyTextNoCalls ==
    EmptyDocument =>
        /\ i_pc \in {"chunk", "done"}
        /\ i_calls = NoCalls
        /\ i_chunks = <<>> /\ i_embeddings = <<>>
        /\ i_pc = "done" => i_resp.status = 400
        /\ \A k \in 1..Len(collection) :
              collection[k].metadata.session_id # i_session_id

\* the text was extracted (it has characters), chunk returned no chunk, and
\* the request ended with 400 without any call
C8_Witness ==
    /\ EmptyDocument
    /\ i_full_text # NoText
    /\ i_pc = "done"
    /\ i_resp = Http(400, "No non-empty chunks could be created from the PDF text")
    /\ i_calls = NoCalls

(***************************************************************************)
(* Claims about /ask (SpecAsk).                                            *)
(***************************************************************************)
\* the request is over, its question was embedded, the index answered every
\* call it got, and the collection holds no record of the request's session
NeverIngestedRequest ==
    /\ a_pc = "done"
    /\ a_env.embed.kind = "ok"
    /\ a_env.index \notin {"raise", "unavailable"}
    /\ matching(collection, a_req.session_id) = {}

\* C9 as stated: such a request ends with 404 and without a generation call.
C9_NeverIngested404 ==
    NeverIngestedRequest =>
        /\ a_resp.status = 404
        /\ a_calls.generate = 0

\* C9 amended: such a request with a non-empty session_id ends with 404
\* "No relevant chunks found" and without a generation call.
C9_NeverIngestedNonEmpty404 ==
    (NeverIngestedRequest /\ a_req.session_id # NoText) =>
        /\ a_resp = Http(404, Detail("No relevant chunks found for this session_id", ""))
        /\ a_calls.generate = 0
        /\ a_env.generate = "none"

\* a 404 for a session without records while another session has records
C9_Witness ==
    /\ NeverIngestedRequest
    /\ a_req.session_id # NoText
    /\ collection # <<>>
    /\ a_resp.status = 404
    /\ a_calls = [embed |-> 1, query |-> 1, generate |-> 0]

\* the classes of failure causes the error kinds are to tell apart
CauseClass(cause) ==
    IF cause \in {"empty_question", "empty_session_id"} THEN "invalid_input"
    ELSE IF cause \in {"embedding_backend", "index_backend", "empty_result", "generation"}
         THEN cause
    ELSE "other"

\* C10: two requests that fail for causes of different classes (invalid
\* input, embedding backend, index backend, empty result, generation) are
\* answered with different error kinds (HTTP status codes).
C10_DistinctKinds ==
    LET now == CauseClass(FailureCause(a_req, a_env)) IN
    (/\ a_pc = "done"
     /\ a_prev.status # 0
     /\ now # "other"
     /\ CauseClass(a_prev.cause) # "other"
     /\ CauseClass(a_prev.cause) # now)
        => a_prev.status # a_resp.status


\* the request ended with an answer
AskAnswered == a_pc = "done" /\ a_resp.status = 200

\* the positions of the records of session_id that carry the ordinal and text
SourceRecords(session_id, source) ==
    {r \in 1..Len(collection) :
        /\ collection[r].metadata.session_id = session_id
        /\ collection[r].metadata.chunk_index = source.chunk_index
        /\ collection[r].document = source.text}

\* C13: the sources of an answered request are, one for one and in the same
\* order, the chunk texts joined into the prompt's context; they come in the
\* order of the index's ranking (nearest to the question's embedding first),
\* and each (chunk_index, text) is the ordinal and text of a record of the
\* requested session.
C13_SourcesMatchContext ==
    AskAnswered =>
        LET sources == a_resp.sources IN
        /\ Len(sources) = Len(a_prompt.context_parts)
        /\ \A k \in 1..Len(sources) : sources[k].text = a_prompt.context_parts[k]
        /\ a_prompt.context = join_context([k \in 1..Len(sources) |-> sources[k].text])
        /\ \A k \in 1..Len(sources) : SourceRecords(a_req.session_id, sources[k]) # {}
        /\ \A j, k \in 1..Len(sources) : j < k =>
              \E rj \in SourceRecords(a_req.session_id, sources[j]),
                 rk \in SourceRecords(a_req.session_id, sources[k]) :
                  distance(collection[rj].embedding, a_query_embedding)
                      <= distance(collection[rk].embedding, a_query_embedding)

\* an answer whose two sources come in ranking order, the chunk of ordinal 1
\* before the chunk of ordinal 0
C13_Witness ==
    /\ AskAnswered
    /\ Len(a_resp.sources) = 2
    /\ a_resp.sources[1].chunk_index = 1
    /\ a_resp.sources[2].chunk_index = 0
    /\ a_resp.sources[1].text # a_resp.sources[2].text

\* C14: a request passes once through embed, query, generate.  Each call is
\* made at most once, a call is made only if every earlier one succeeded, a
\* failed step is the last one and leaves an error response, an answer comes
\* only from a generation that succeeded, the response of a finished request
\* is never replaced, and every received request finishes.
AskCallsInOrder ==
    /\ a_calls.embed <= 1 /\ a_calls.query <= 1 /\ a_calls.generate <= 1
    /\ a_calls.query = 1 => (a_calls.embed = 1 /\ a_env.embed.kind = "ok")
    /\ a_calls.generate = 1 => (a_calls.query = 1 /\ a_env.index = "found")

AskOneOutcome ==
    /\ a_pc \notin {"idle", "done"} => a_resp = NoResponse
    /\ a_pc = "done" => a_resp.status \in {200, 400, 404, 500}
    /\ AskAnswered =>
          (a_calls = [embed |-> 1, query |-> 1, generate |-> 1] /\ a_env.generate = "ok")
    /\ (a_pc = "done" /\ a_env.generate \in {"raise", "malformed"}) => a_resp.status = 500

AskOutcomeFinal ==
    (a_pc = "done" /\ a_pc' = "done") => (a_resp' = a_resp /\ a_calls' = a_calls)

C14_SinglePass ==
    /\ [](AskCallsInOrder /\ AskOneOutcome)
    /\ [][AskOutcomeFinal]_vars
    /\ (a_pc = "embed") ~> (a_pc = "done")

\* the index fails for a question that was embedded: the request is over with
\* an error and the chat model was not called
C14_Witness ==
    /\ a_pc = "done"
    /\ a_env.embed.kind = "ok" /\ a_env.index = "raise"
    /\ a_calls = [embed |-> 1, query |-> 1, generate |-> 0]
    /\ a_resp.status = 400
    /\ a_env.generate = "none"

\* C15: a request that answers 200 leaves, under the session id it returns,
\* one record per chunk, record k holding chunk k, ordinal k-1 and the vector
\* the embedding model gave for chunk k; a request that fails, or is on its
\* way, has no record under its session id.  When embed_texts drops some but
\* not all chunks, add_document is called and refuses the lists; when the
\* summary fails, neither embed_texts nor add_document is called.
IngestSucceeded == i_pc = "done" /\ i_resp.status = 200

IngestAligned ==
    LET recs == session_records(collection, i_session_id) IN
    /\ i_resp.session_id = i_session_id
    /\ i_chunks # <<>>
    /\ Len(recs) = Len(i_chunks)
    /\ \A k \in 1..Len(recs) :
          /\ recs[k].document = i_chunks[k]
          /\ recs[k].metadata.chunk_index = k - 1
          /\ embed_text(i_chunks[k], i_env.resps[k]) = Returned(recs[k].embedding)

SomeChunksDropped ==
    /\ i_calls.embed = 1
    /\ \E k \in 1..Len(i_chunks) : embed_text(i_chunks[k], i_env.resps[k]).raised # "none"
    /\ \E k \in 1..Len(i_chunks) : embed_text(i_chunks[k], i_env.resps[k]).raised = "none"

C15_IngestAllOrNothing ==
    /\ IngestSucceeded => IngestAligned
    /\ (i_pc # "idle" /\ ~IngestSucceeded) =>
          session_records(collection, i_session_id) = <<>>
    /\ (i_pc = "done" /\ SomeChunksDropped) =>
          (i_calls.add = 1 /\ i_resp.status = 500)
    /\ i_env.summarise = "raise" =>
          (i_pc = "done" /\ i_resp.status = 500 /\ i_calls.embed = 0 /\ i_calls.add = 0)

\* the second of the three Alpha chunks is dropped by embed_texts, two
\* vectors reach add_document with three chunks, and nothing is stored
C15_Witness ==
    /\ i_pc = "done" /\ SomeChunksDropped
    /\ Len(i_chunks) = 3 /\ Len(i_embeddings) = 2
    /\ embed_text(i_chunks[2], i_env.resps[2]).raised # "none"
    /\ i_embeddings[1] # i_embeddings[2]
    /\ i_calls.add = 1 /\ i_resp.status = 500
    /\ session_records(collection, i_session_id) = <<>>

=========================================================================
